---- MODULE Spec2Model ----
(***************************************************************************)
(* ChatPDF backend: the document ingestion and retrieval-answering         *)
(* pipeline (app/utils/pdf_processor.py, pdf_validator.py,                 *)
(* retry_handler.py, timeout_handler.py) and the query endpoint            *)
(* (app/api/endpoints/query.py) as a state machine.                        *)
(*                                                                         *)
(* The specifications share the variables:                                 *)
(*   SpecRetry     - RetryHandler.retry_async around some operation        *)
(*   SpecRanker    - find_relevant_chunks followed by generate_response,   *)
(*                   called directly with bounded inputs                   *)
(*   SpecValidator - PDFValidator.comprehensive_validation of some bytes   *)
(*   SpecChunker   - create_chunks of some text                            *)
(*   SpecUpload    - one upload_pdf request (app/api/endpoints/pdf.py)     *)
(*   Spec          - one query_pdf request, end to end                     *)
(***************************************************************************)
EXTENDS Integers, Sequences, FiniteSets, TLC

VARIABLES
    pc,                 \* position of the running request / call
    rh,                 \* SpecRetry: the RetryHandler frame under test
    observed,           \* SpecRetry: outcome of every invocation of the wrapped operation
    req,                \* query_pdf: the request (id format, whether the PDF record exists)
    dl_attempt,         \* query_pdf: loop variable of the download loop
    dl_replies,         \* query_pdf: how the requests.get calls of the running
                        \* download loop ended
    doc,                \* the PDF bytes handed to the processor
    ext,                \* retry frame of extract_text_from_pdf
    extract_calls,      \* number of times the body of extract_text_from_pdf ran
    extracted,          \* (text, processing_info) returned by process_pdf_with_fallback
    chunks,             \* the chunk list given to find_relevant_chunks
    top_k,              \* its top_k argument
    qvec,               \* embedding the provider computes for the query text
    cvec,               \* embedding the provider computes for chunk i
    frc,                \* retry frame of find_relevant_chunks
    phase,              \* position inside one attempt of find_relevant_chunks
    idx,                \* loop variable of the chunk-embedding loop (1-based)
    ge,                 \* retry frame of the running get_embeddings call
    query_embedding,    \* local of find_relevant_chunks
    chunk_embeddings,   \* local of find_relevant_chunks: <<[chunk, vec]>>, chunk kept for reference only
    top_indices,        \* local of find_relevant_chunks (1-based positions)
    gr,                 \* retry frame of generate_response
    complete_calls,     \* number of calls of the generation provider
    response_text,      \* local of query_pdf
    save_failed,        \* query_pdf: the insert of the query record raised
    queries,            \* metadata store: the query records
    response,           \* what the endpoint answers
    overran,            \* the last attempt of extract_text_from_pdf lasted longer than its timeout
    filename,           \* the filename given to the validator / of the uploaded file
    validation,         \* SpecValidator: how comprehensive_validation ended
    input_text,         \* SpecChunker: the text given to create_chunks (characters)
    chunker,            \* SpecChunker: chunk_size and chunk_overlap of the processor
    chunked,            \* SpecChunker: how create_chunks ended
    upload_result,      \* upload_pdf: what cloudinary.uploader.upload returned
    upload_response,    \* upload_pdf: what the endpoint answers
    blobs,              \* blob store: public ids of the stored files
    pdfs,               \* metadata store: the PDF records
    validation_calls,   \* number of times comprehensive_validation ran
    provider_log,       \* embedding provider: its calls for the query text while every call failed
    upload_log,         \* upload_pdf: what the stores did with the insert and the cleanup
    dpc,                \* delete_pdf: position of the request
    destroy_result,     \* delete_pdf: what cloudinary.uploader.destroy reported
    del_response        \* delete_pdf: what the endpoint answers

vars == <<pc, rh, observed, req, dl_attempt, dl_replies, doc, ext, extract_calls, extracted,
          chunks, top_k, qvec, cvec, frc, phase, idx, ge, query_embedding,
          chunk_embeddings, top_indices, gr, complete_calls, response_text,
          save_failed, queries, response, overran, filename, validation, input_text,
          chunker, chunked, upload_result, upload_response, blobs, pdfs,
          validation_calls, provider_log, upload_log, dpc, destroy_result,
          del_response>>

retryVars == <<rh, observed>>
queryVars == <<req, dl_attempt, dl_replies, doc, ext, extract_calls, extracted, save_failed,
               queries, response>>
rankVars  == <<chunks, top_k, qvec, cvec, frc, phase, idx, ge, query_embedding,
               chunk_embeddings, top_indices>>
genVars   == <<gr, complete_calls, response_text>>
validatorVars == <<filename, validation>>
chunkerVars == <<input_text, chunker, chunked>>
uploadVars == <<upload_result, upload_response, blobs, pdfs>>
deleteVars == <<dpc, destroy_result, del_response>>
otherVars == <<overran, validatorVars, chunkerVars, uploadVars, validation_calls,
               provider_log, upload_log, deleteVars>>

(***************************************************************************)
(* Bounds of the model.                                                    *)
(***************************************************************************)
MaxRetriesTried == 3    \* SpecRetry tries max_retries in 0..MaxRetriesTried
MaxChunks == 3          \* SpecRanker: chunk lists of length 0..MaxChunks
MaxTopK == 3            \* SpecRanker: top_k in 0..MaxTopK
MaxRuns == 2            \* documents: page layouts of at most MaxRuns runs of pages
MaxTextLen == 5         \* SpecChunker: texts of at most MaxTextLen characters
MaxChunkSize == 3       \* SpecChunker: chunk_size in 1..MaxChunkSize, chunk_overlap in 0..MaxChunkSize + 1

Min(a, b) == IF a <= b THEN a ELSE b

RECURSIVE Pow2(_)
Pow2(n) == IF n = 0 THEN 1 ELSE 2 * Pow2(n - 1)

(***************************************************************************)
(* Outcome of a call: a returned value or a raised exception (the class    *)
(* name; cause is the exception it was raised from or wraps).              *)
(***************************************************************************)
Return(v) == [ok |-> TRUE, val |-> v, exc |-> "None", cause |-> "None"]
Raise(e, none) == [ok |-> FALSE, val |-> none, exc |-> e, cause |-> "None"]
RaiseFrom(e, c, none) == [ok |-> FALSE, val |-> none, exc |-> e, cause |-> c]

(***************************************************************************)
(* app/utils/retry_handler.py                                              *)
(***************************************************************************)
default_max_delay == 60

\* RetryHandler.__init__; attempt, last_exception are the locals of retry_async,
\* slept the delays given to asyncio.sleep so far, state/result/exc/cause how
\* retry_async ended.
RetryHandler(max_retries, base_delay, none) ==
    [max_retries |-> max_retries, base_delay |-> base_delay,
     max_delay |-> default_max_delay,
     attempt |-> 0, last_exception |-> "None", slept |-> <<>>,
     state |-> "running", result |-> none, exc |-> "None", cause |-> "None"]

\* A delay that keeps doubling past max_delay.
exponential_backoff_uncapped(h, attempt) ==
    h.base_delay * Pow2(attempt)

\* RetryHandler.exponential_backoff
exponential_backoff(h, attempt) ==
    Min(h.base_delay * Pow2(attempt), h.max_delay)

\* A loop bound that allows one attempt too many.
retry_async_step_extra_attempt(h, out) ==
    IF out.ok
    THEN [h EXCEPT !.state = "returned", !.result = out.val]
    ELSE IF h.attempt < h.max_retries + 1
         THEN [h EXCEPT !.last_exception = out.exc,
                        !.slept = Append(@, exponential_backoff(h, h.attempt)),
                        !.attempt = @ + 1]
         ELSE [h EXCEPT !.last_exception = out.exc,
                        !.state = "raised", !.exc = "RetryExhaustedError",
                        !.cause = out.exc]

\* One iteration of the for loop of retry_async, given how func ended.  After
\* the last iteration the loop is left and RetryExhaustedError is raised from
\* last_exception.
retry_async_step(h, out) ==
    IF out.ok
    THEN [h EXCEPT !.state = "returned", !.result = out.val]
    ELSE IF h.attempt < h.max_retries
         THEN [h EXCEPT !.last_exception = out.exc,
                        !.slept = Append(@, exponential_backoff(h, h.attempt)),
                        !.attempt = @ + 1]
         ELSE [h EXCEPT !.last_exception = out.exc,
                        !.state = "raised", !.exc = "RetryExhaustedError",
                        !.cause = out.exc]

\* No call in progress.
IdleFrame(none) == [RetryHandler(0, 1, none) EXCEPT !.state = "idle"]

\* How the finished retry_async call ends for its caller.
RetryOutcome(h) ==
    IF h.state = "returned" THEN Return(h.result)
    ELSE RaiseFrom(h.exc, h.cause, h.result)

(***************************************************************************)
(* app/utils/timeout_handler.py                                            *)
(***************************************************************************)
\* TimeoutHandler.with_timeout: the result or exception of func passes
\* through; asyncio.TimeoutError becomes ProcessingTimeoutError.
with_timeout(out, timed_out, none) ==
    IF timed_out THEN Raise("ProcessingTimeoutError", none) ELSE out

\* asyncio.wait_for(func(*args, **kwargs), timeout=timeout_seconds): whether
\* it raises asyncio.TimeoutError.  The timer is a callback of the event loop,
\* so it can end the body only while the body is suspended in an await: a
\* body that lasted longer than the timeout (overran) without ever
\* suspending has finished before the loop gets to run the timer.
wait_for(body_overran, suspends) ==
    IF body_overran /\ suspends THEN {TRUE} ELSE {FALSE}

\* extract_text_from_pdf and generate_response never await inside their bodies
\* (PyPDF2 and the Gemini client are called synchronously).
BodySuspends == FALSE

(***************************************************************************)
(* SpecRetry: retry_async around an operation whose every invocation       *)
(* returns a value or raises.                                              *)
(***************************************************************************)
OpOutcomes == {Return("r1"), Return("r2"),
               Raise("ErrorA", "none"), Raise("ErrorB", "none")}

\* One attempt: the wrapper awaits func once and handles how it ended.
RetryAttempt ==
    /\ pc = "retry"
    /\ rh.state = "running"
    /\ \E out \in OpOutcomes :
          /\ observed' = Append(observed, out)
          /\ rh' = retry_async_step(rh, out)
    /\ UNCHANGED <<otherVars, pc, queryVars, rankVars, genVars>>

(***************************************************************************)
(* PDF bytes, as far as PyPDF2 and the validators look at them.            *)
(*   size       len(pdf_content)                                           *)
(*   signature  pdf_content.startswith(b"%PDF-")                           *)
(*   parses     PyPDF2.PdfReader(...) opens the structure                  *)
(*   encrypted  reader.is_encrypted                                        *)
(*   page_tree  reader.pages can be read (an encrypted file that was not   *)
(*              decrypted may or may not give its page tree, depending on  *)
(*              the file and the PyPDF2 release)                           *)
(*   pages      the pages in order, as runs <<kind, n>> of n pages whose   *)
(*              extract_text() gives text ("text"), nothing but white      *)
(*              space ("blank"), or raises ("raise")                       *)
(***************************************************************************)
max_file_size == 50 * 1024 * 1024
max_pages == 1000

Run(kind, n) == [kind |-> kind, n |-> n]

Runs == {Run("text", n) : n \in {1, 3}}
        \cup {Run(k, n) : k \in {"blank", "raise"}, n \in {1, 2, 7, max_pages}}

RECURSIVE Layouts(_)
Layouts(n) ==
    IF n = 0 THEN {<<>>}
    ELSE Layouts(n - 1)
         \cup {Append(l, r) : l \in {x \in Layouts(n - 1) : Len(x) = n - 1}, r \in Runs}

NoPdf == [size |-> 0, signature |-> FALSE, parses |-> FALSE, encrypted |-> FALSE,
          page_tree |-> FALSE, pages |-> <<>>]

Docs ==
    {NoPdf}
    \cup {[size |-> s, signature |-> FALSE, parses |-> FALSE, encrypted |-> FALSE,
           page_tree |-> FALSE, pages |-> <<>>] : s \in {1024, max_file_size + 1}}
    \cup {[size |-> s, signature |-> TRUE, parses |-> FALSE, encrypted |-> FALSE,
           page_tree |-> FALSE, pages |-> <<>>] : s \in {1024, max_file_size + 1}}
    \cup {[size |-> s, signature |-> TRUE, parses |-> TRUE, encrypted |-> TRUE,
           page_tree |-> FALSE, pages |-> <<>>] : s \in {1024}}
    \cup {[size |-> s, signature |-> TRUE, parses |-> TRUE, encrypted |-> e,
           page_tree |-> TRUE, pages |-> l] :
              s \in {1024, max_file_size, max_file_size + 1},
              e \in BOOLEAN, l \in Layouts(MaxRuns)}

RECURSIVE TotalPages(_)
TotalPages(runs) ==
    IF runs = <<>> THEN 0 ELSE Head(runs).n + TotalPages(Tail(runs))

\* len(reader.pages)
len_pages(d) ==
    IF d.page_tree THEN Return(TotalPages(d.pages)) ELSE Raise("PdfReadError", 0)

\* The page loop shared by the extractor, the fallback pass and the content
\* validator: the text is the list of the numbers of the pages whose text
\* was appended; a page that raises or is blank adds nothing.
RECURSIVE ReadPages(_, _, _)
ReadPages(runs, next_page, acc) ==
    IF runs = <<>> THEN acc
    ELSE LET r == Head(runs) IN
         ReadPages(Tail(runs), next_page + r.n,
                   IF r.kind = "text"
                   THEN [text |-> acc.text \o [i \in 1..r.n |-> next_page + i - 1],
                         readable_pages |-> acc.readable_pages + r.n]
                   ELSE acc)

PageLoop(d) == ReadPages(d.pages, 1, [text |-> <<>>, readable_pages |-> 0])

(***************************************************************************)
(* app/utils/pdf_validator.py                                              *)
(***************************************************************************)
validate_file_size(file_size) ==
    IF file_size > max_file_size THEN Raise("LargeFileError", 0) ELSE Return(0)

\* A check that lets every content pass.
validate_mime_type_accepts(d) == Return(0)

validate_mime_type(d) ==
    IF ~d.signature THEN Raise("InvalidMimeTypeError", 0) ELSE Return(0)

NoStructure == [page_count |-> 0, is_password_protected |-> FALSE, is_readable |-> FALSE]

\* The try block of validate_pdf_structure.
validate_pdf_structure_try(d) ==
    IF ~d.parses THEN Raise("PdfReadError", NoStructure)
    ELSE LET n == len_pages(d) IN
         IF ~n.ok THEN Raise(n.exc, NoStructure)
         ELSE IF n.val > max_pages THEN Raise("TooManyPagesError", NoStructure)
         ELSE Return([page_count |-> n.val,
                      is_password_protected |-> d.encrypted,
                      is_readable |-> n.val > 0 /\ d.pages[1].kind = "text"])

\* Both handlers (PdfReadError, Exception) raise CorruptedPDFError; the
\* TooManyPagesError raised inside the try block is caught by the second.
validate_pdf_structure(d) ==
    LET r == validate_pdf_structure_try(d) IN
    IF r.ok THEN r ELSE RaiseFrom("CorruptedPDFError", r.exc, NoStructure)

NoReadability == [readable_pages |-> 0, total_pages |-> 0]

validate_content_readability_try(d) ==
    IF ~d.parses THEN Raise("PdfReadError", NoReadability)
    ELSE IF d.encrypted THEN Raise("PasswordProtectedPDFError", NoReadability)
    ELSE LET n == len_pages(d) IN
         IF ~n.ok THEN Raise(n.exc, NoReadability)
         ELSE IF PageLoop(d).readable_pages = 0 THEN Raise("EmptyPDFError", NoReadability)
         ELSE Return([readable_pages |-> PageLoop(d).readable_pages,
                      total_pages |-> n.val])

validate_content_readability(d) ==
    LET r == validate_content_readability_try(d) IN
    IF r.ok \/ r.exc \in {"PasswordProtectedPDFError", "EmptyPDFError"} THEN r
    ELSE RaiseFrom("CorruptedPDFError", r.exc, NoReadability)

NoValidation == [file_size |-> 0, total_pages |-> 0, readable_pages |-> 0,
                 is_password_protected |-> FALSE, is_readable |-> FALSE,
                 validation_passed |-> FALSE]

comprehensive_validation(d, file_size) ==
    LET size == validate_file_size(file_size)
        mime == validate_mime_type(d)
        struct == validate_pdf_structure(d)
        content == validate_content_readability(d)
    IN  IF ~size.ok THEN Raise(size.exc, NoValidation)
        ELSE IF ~mime.ok THEN Raise(mime.exc, NoValidation)
        ELSE IF ~struct.ok THEN RaiseFrom(struct.exc, struct.cause, NoValidation)
        ELSE IF struct.val.is_password_protected
             THEN Raise("PasswordProtectedPDFError", NoValidation)
        ELSE IF ~content.ok THEN RaiseFrom(content.exc, content.cause, NoValidation)
        ELSE Return([file_size |-> file_size,
                     total_pages |-> content.val.total_pages,
                     readable_pages |-> content.val.readable_pages,
                     is_password_protected |-> struct.val.is_password_protected,
                     is_readable |-> struct.val.is_readable,
                     validation_passed |-> TRUE])

(***************************************************************************)
(* app/utils/pdf_processor.py: extraction                                  *)
(***************************************************************************)
NoInfo == [total_pages |-> 0, readable_pages |-> 0, text_length |-> 0,
           validation_passed |-> FALSE, partial_read |-> FALSE, fallback_used |-> FALSE]

NoExtraction == [text |-> <<>>, info |-> NoInfo]

\* A try block whose partial-read test also rejects exactly half.
extract_text_from_pdf_try_half_is_partial(d) ==
    LET v == comprehensive_validation(d, d.size)
        n == len_pages(d)
        read == PageLoop(d)
    IN  IF ~v.ok THEN RaiseFrom(v.exc, v.cause, NoExtraction)
        ELSE IF ~d.parses THEN Raise("PdfReadError", NoExtraction)
        ELSE IF d.encrypted THEN Raise("PasswordProtectedPDFError", NoExtraction)
        ELSE IF ~n.ok THEN Raise(n.exc, NoExtraction)
        ELSE IF read.text = <<>> THEN Raise("EmptyPDFError", NoExtraction)
        ELSE IF read.readable_pages < n.val /\ read.readable_pages * 2 <= n.val
             THEN Raise("PartialReadError", NoExtraction)
        ELSE Return([text |-> read.text,
                     info |-> [total_pages |-> n.val,
                               readable_pages |-> read.readable_pages,
                               text_length |-> Len(read.text),
                               validation_passed |-> TRUE,
                               partial_read |-> read.readable_pages < n.val,
                               fallback_used |-> FALSE]])

\* The try block of extract_text_from_pdf: what it returns or raises before
\* the except clauses look at it.  A processing_info without the key
\* "fallback_used" is written with fallback_used FALSE.
extract_text_from_pdf_try(d) ==
    LET v == comprehensive_validation(d, d.size)
        n == len_pages(d)
        read == PageLoop(d)
    IN  IF ~v.ok THEN RaiseFrom(v.exc, v.cause, NoExtraction)
        ELSE IF ~d.parses THEN Raise("PdfReadError", NoExtraction)
        ELSE IF d.encrypted THEN Raise("PasswordProtectedPDFError", NoExtraction)
        ELSE IF ~n.ok THEN Raise(n.exc, NoExtraction)
        ELSE IF read.text = <<>> THEN Raise("EmptyPDFError", NoExtraction)
        ELSE IF read.readable_pages < n.val /\ read.readable_pages * 2 < n.val
             THEN Raise("PartialReadError", NoExtraction)
        ELSE Return([text |-> read.text,
                     info |-> [total_pages |-> n.val,
                               readable_pages |-> read.readable_pages,
                               text_length |-> Len(read.text),
                               validation_passed |-> TRUE,
                               partial_read |-> read.readable_pages < n.val,
                               fallback_used |-> FALSE]])

\* The except clauses of extract_text_from_pdf.
extract_text_from_pdf(d) ==
    LET r == extract_text_from_pdf_try(d) IN
    IF r.ok THEN r
    ELSE IF r.exc \in {"PasswordProtectedPDFError", "EmptyPDFError", "PartialReadError"}
         THEN r
    ELSE IF r.exc = "PdfReadError" THEN RaiseFrom("CorruptedPDFError", r.exc, NoExtraction)
    ELSE RaiseFrom("PDFProcessingError", r.exc, NoExtraction)

\* The fallback pass of process_pdf_with_fallback (the inner try block).
fallback_pass_try(d) ==
    LET n == len_pages(d)
        read == PageLoop(d)
    IN  IF ~d.parses THEN Raise("PdfReadError", NoExtraction)
        ELSE IF ~n.ok THEN Raise(n.exc, NoExtraction)
        ELSE IF read.text # <<>>
             THEN Return([text |-> read.text,
                          info |-> [total_pages |-> n.val,
                                    readable_pages |-> read.readable_pages,
                                    text_length |-> Len(read.text),
                                    validation_passed |-> TRUE,
                                    partial_read |-> TRUE,
                                    fallback_used |-> TRUE]])
        ELSE Raise("EmptyPDFError", NoExtraction)

\* process_pdf_with_fallback, given how its call of the (retried, timed)
\* extract_text_from_pdf ended.
process_pdf_with_fallback(extraction, d) ==
    IF extraction.ok THEN extraction
    ELSE IF extraction.exc = "PartialReadError"
         THEN LET f == fallback_pass_try(d) IN
              IF f.ok THEN f ELSE RaiseFrom("EmptyPDFError", f.exc, NoExtraction)
    ELSE extraction

\* create_chunks: the words of the text, in windows of chunk_size words
\* every chunk_size - chunk_overlap words.  range() raises ValueError for a
\* step of 0 and is empty for a negative step.
chunk_size == 1000
chunk_overlap == 200

\* Windows that stop as soon as fewer than size words are left.
RECURSIVE Windows_full_only(_, _, _, _)
Windows_full_only(words, i, size, step) ==
    IF i + size - 1 > Len(words) THEN <<>>
    ELSE <<SubSeq(words, i, i + size - 1)>>
         \o Windows_full_only(words, i + step, size, step)

RECURSIVE Windows(_, _, _, _)
Windows(words, i, size, step) ==
    IF i > Len(words) THEN <<>>
    ELSE <<SubSeq(words, i, Min(i + size - 1, Len(words)))>>
         \o Windows(words, i + step, size, step)

create_chunks(words, size, overlap) ==
    IF size - overlap = 0 THEN RaiseFrom("PDFProcessingError", "ValueError", <<>>)
    ELSE IF size - overlap < 0 THEN Return(<<>>)
    ELSE Return(Windows(words, 1, size, size - overlap))

\* A text is a sequence of characters; " " stands for any white space.
\* str.split(): the maximal runs of characters that are not white space.
RECURSIVE split_rest(_, _, _)
split_rest(str, word, words) ==
    IF str = <<>> THEN (IF word = <<>> THEN words ELSE Append(words, word))
    ELSE IF Head(str) = " "
         THEN split_rest(Tail(str), <<>>,
                         IF word = <<>> THEN words ELSE Append(words, word))
    ELSE split_rest(Tail(str), Append(word, Head(str)), words)

split(str) == split_rest(str, <<>>, <<>>)

\* " ".join(words)
RECURSIVE join(_)
join(words) ==
    IF words = <<>> THEN <<>>
    ELSE IF Len(words) = 1 THEN Head(words)
    ELSE Head(words) \o <<" ">> \o join(Tail(words))

\* create_chunks(text) of a processor with the given chunk_size and
\* chunk_overlap: the chunks as texts.
create_chunks_of_text(str, size, overlap) ==
    LET c == create_chunks(split(str), size, overlap) IN
    IF c.ok THEN Return([i \in 1..Len(c.val) |-> join(c.val[i])]) ELSE c

\* SpecChunker: one call of create_chunks.
ChunkerCall ==
    /\ pc = "chunk"
    /\ chunked' = create_chunks_of_text(input_text, chunker.chunk_size,
                                        chunker.chunk_overlap)
    /\ pc' = "chunked"
    /\ UNCHANGED <<overran, validatorVars, input_text, chunker, uploadVars,
                   validation_calls, provider_log, upload_log, deleteVars, retryVars,
                   queryVars, rankVars, genVars>>

(***************************************************************************)
(* app/utils/pdf_processor.py: embeddings and ranking                      *)
(***************************************************************************)
\* Embeddings are vectors <<x, y>>; none is the zero vector.
Vecs == {<<1, 0>>, <<0, 1>>, <<1, 1>>}
NoVec == <<0, 0>>

Dot(a, b) == a[1] * b[1] + a[2] * b[2]

\* cosine_similarity([q], [a])[0][0] <= cosine_similarity([q], [b])[0][0],
\* that is Dot(q,a)/(|q||a|) <= Dot(q,b)/(|q||b|), decided without roots.
CosLeq(q, a, b) ==
    LET da == Dot(q, a)
        db == Dot(q, b)
    IN  IF da < 0 /\ db >= 0 THEN TRUE
        ELSE IF da >= 0 /\ db < 0 THEN FALSE
        ELSE IF da >= 0 THEN da * da * Dot(b, b) <= db * db * Dot(a, a)
        ELSE da * da * Dot(b, b) >= db * db * Dot(a, a)

Orderings(n) ==
    {p \in [1..n -> 1..n] : \A i, j \in 1..n : i # j => p[i] # p[j]}

\* np.argsort(similarities): the positions in ascending order of similarity
\* (1-based here); the order of equal similarities is not fixed.
argsort(q, embeddings) ==
    {p \in Orderings(Len(embeddings)) :
        \A i, j \in 1..Len(embeddings) :
            i < j => CosLeq(q, embeddings[p[i]].vec, embeddings[p[j]].vec)}

\* A slice that starts one position too early.
last_k_one_more(order, k) ==
    IF k + 1 >= Len(order) THEN order
    ELSE SubSeq(order, Len(order) - k, Len(order))

\* order[-top_k:] -- Python reads -0 as 0, so top_k = 0 keeps everything.
last_k(order, k) ==
    IF k = 0 \/ k >= Len(order) THEN order
    ELSE SubSeq(order, Len(order) - k + 1, Len(order))

RECURSIVE SelectSeq2(_, _)
SelectSeq2(s, n) ==
    IF s = <<>> THEN <<>>
    ELSE (IF Head(s) <= n THEN <<Head(s)>> ELSE <<>>) \o SelectSeq2(Tail(s), n)

\* [chunks[i] for i in top_indices if i < len(chunks)]: the chunks are given
\* by their (1-based) positions in the chunk list.
relevant_chunks(indices, chunk_list) == SelectSeq2(indices, Len(chunk_list))

\* The body of get_embeddings: the provider encodes the text or raises.
get_embeddings(vec, provider_ok) ==
    IF provider_ok THEN Return(vec)
    ELSE RaiseFrom("PDFProcessingError", "ProviderError", NoVec)

\* What escapes the except clause of find_relevant_chunks.
frc_raise(cause) == RaiseFrom("PDFProcessingError", cause, <<>>)

\* A get_embeddings for the query that is retried once more.
FrcBegin_three_retries ==
    /\ pc = "rank" /\ frc.state = "running" /\ phase = "begin"
    /\ IF chunks = <<>>
       THEN /\ frc' = retry_async_step(frc, Return(<<>>))
            /\ phase' = "end"
            /\ UNCHANGED ge
       ELSE /\ phase' = "query"
            /\ ge' = RetryHandler(3, 1, NoVec)
            /\ UNCHANGED frc
    /\ query_embedding' = NoVec
    /\ chunk_embeddings' = <<>>
    /\ top_indices' = <<>>
    /\ idx' = 0
    /\ UNCHANGED <<otherVars, pc, chunks, top_k, qvec, cvec, retryVars, queryVars, genVars>>

FrcBegin ==
    /\ pc = "rank" /\ frc.state = "running" /\ phase = "begin"
    /\ IF chunks = <<>>
       THEN /\ frc' = retry_async_step(frc, Return(<<>>))
            /\ phase' = "end"
            /\ UNCHANGED ge
       ELSE /\ phase' = "query"
            /\ ge' = RetryHandler(2, 1, NoVec)
            /\ UNCHANGED frc
    /\ query_embedding' = NoVec
    /\ chunk_embeddings' = <<>>
    /\ top_indices' = <<>>
    /\ idx' = 0
    /\ UNCHANGED <<otherVars, pc, chunks, top_k, qvec, cvec, retryVars, queryVars, genVars>>

\* The log of the embedding provider after one more call of
\* self.embedding_model.encode: the calls for the query text are counted as
\* long as every call has failed.
provider_called(log, for_query, provider_ok) ==
    IF ~provider_ok THEN [all_failed |-> log.all_failed,
                          query_calls |-> IF log.all_failed /\ for_query
                                          THEN log.query_calls + 1
                                          ELSE log.query_calls]
    ELSE [all_failed |-> FALSE, query_calls |-> 0]

\* One attempt of the running get_embeddings call.
GetEmbeddingsAttempt ==
    /\ pc = "rank" /\ phase \in {"query", "chunk"} /\ ge.state = "running"
    /\ \E provider_ok \in BOOLEAN :
          /\ ge' = retry_async_step(ge,
                       get_embeddings(IF phase = "query" THEN qvec ELSE cvec[idx],
                                      provider_ok))
          /\ provider_log' = provider_called(provider_log, phase = "query", provider_ok)
    /\ UNCHANGED <<overran, validatorVars, chunkerVars, uploadVars, validation_calls,
                   upload_log, deleteVars, pc, chunks, top_k, qvec, cvec, frc, phase, idx, query_embedding,
                   chunk_embeddings, top_indices, retryVars, queryVars, genVars>>

\* await self.get_embeddings(query) has ended.
FrcQueryEmbedded ==
    /\ pc = "rank" /\ phase = "query" /\ ge.state \in {"returned", "raised"}
    /\ IF ge.state = "returned"
       THEN /\ query_embedding' = ge.result
            /\ phase' = "chunk"
            /\ idx' = 1
            /\ ge' = RetryHandler(2, 1, NoVec)
            /\ UNCHANGED frc
       ELSE /\ frc' = retry_async_step(frc, frc_raise(ge.exc))
            /\ phase' = IF frc'.state = "running" THEN "begin" ELSE "end"
            /\ ge' = IdleFrame(NoVec)
            /\ UNCHANGED <<query_embedding, idx>>
    /\ UNCHANGED <<otherVars, pc, chunks, top_k, qvec, cvec, chunk_embeddings, top_indices,
                   retryVars, queryVars, genVars>>

\* A loop without the try/except around the embedding of one chunk: the
\* failure of one chunk ends the attempt.
FrcChunkEmbedded_aborts ==
    /\ pc = "rank" /\ phase = "chunk" /\ ge.state \in {"returned", "raised"}
    /\ IF ge.state = "raised"
       THEN /\ frc' = retry_async_step(frc, frc_raise(ge.exc))
            /\ phase' = IF frc'.state = "running" THEN "begin" ELSE "end"
            /\ idx' = 0
            /\ ge' = IdleFrame(NoVec)
            /\ UNCHANGED chunk_embeddings
       ELSE /\ chunk_embeddings' = Append(chunk_embeddings, [of |-> idx, vec |-> ge.result])
            /\ IF idx < Len(chunks)
               THEN /\ idx' = idx + 1
                    /\ ge' = RetryHandler(2, 1, NoVec)
                    /\ UNCHANGED phase
               ELSE /\ idx' = 0
                    /\ ge' = IdleFrame(NoVec)
                    /\ phase' = "select"
            /\ UNCHANGED frc
    /\ UNCHANGED <<otherVars, pc, chunks, top_k, qvec, cvec, query_embedding, top_indices,
                   retryVars, queryVars, genVars>>

\* await self.get_embeddings(chunk) has ended: the embedding is appended, or
\* the chunk is skipped.
FrcChunkEmbedded ==
    /\ pc = "rank" /\ phase = "chunk" /\ ge.state \in {"returned", "raised"}
    /\ chunk_embeddings' =
          IF ge.state = "returned"
          THEN Append(chunk_embeddings, [of |-> idx, vec |-> ge.result])
          ELSE chunk_embeddings
    /\ IF idx < Len(chunks)
       THEN /\ idx' = idx + 1
            /\ ge' = RetryHandler(2, 1, NoVec)
            /\ UNCHANGED phase
       ELSE /\ idx' = 0
            /\ ge' = IdleFrame(NoVec)
            /\ phase' = "select"
    /\ UNCHANGED <<otherVars, pc, chunks, top_k, qvec, cvec, frc, query_embedding, top_indices,
                   retryVars, queryVars, genVars>>

\* The rest of the body: no embeddings at all is an error, else the
\* similarities are sorted and the chunks selected.
FrcSelect ==
    /\ pc = "rank" /\ phase = "select"
    /\ IF chunk_embeddings = <<>>
       THEN /\ frc' = retry_async_step(frc, frc_raise("PDFProcessingError"))
            /\ phase' = IF frc'.state = "running" THEN "begin" ELSE "end"
            /\ UNCHANGED top_indices
       ELSE \E order \in argsort(query_embedding, chunk_embeddings) :
               /\ top_indices' = last_k(order, top_k)
               /\ frc' = retry_async_step(frc,
                             Return(relevant_chunks(top_indices', chunks)))
               /\ phase' = "end"
    /\ UNCHANGED <<otherVars, pc, chunks, top_k, qvec, cvec, idx, ge, query_embedding,
                   chunk_embeddings, retryVars, queryVars, genVars>>

(***************************************************************************)
(* app/utils/pdf_processor.py: generate_response                           *)
(***************************************************************************)
NoText == [kind |-> "none", context |-> <<>>, note |-> <<>>]
NoContentText == [kind |-> "no_relevant_content", context |-> <<>>, note |-> <<>>]
UnableText == [kind |-> "unable_to_generate", context |-> <<>>, note |-> <<>>]
GeneratedText(context) == [kind |-> "generated", context |-> context, note |-> <<>>]

\* What self.model.generate_content(prompt) does: text, empty text, or raises.
ProviderReplies == {"text", "empty", "raise"}

\* A body without the check for an empty chunk list.
generate_response_unguarded(relevant, reply) ==
    [calls |-> 1,
     out |-> IF reply = "text" THEN Return(GeneratedText(relevant))
             ELSE IF reply = "empty" THEN Return(UnableText)
             ELSE RaiseFrom("PDFProcessingError", "ProviderError", NoText)]

\* The body of generate_response: how it ends, and how many times it called
\* the generation provider.  The context is the chunks in the order given.
generate_response(relevant, reply) ==
    IF relevant = <<>> THEN [calls |-> 0, out |-> Return(NoContentText)]
    ELSE [calls |-> 1,
          out |-> IF reply = "text" THEN Return(GeneratedText(relevant))
                  ELSE IF reply = "empty" THEN Return(UnableText)
                  ELSE RaiseFrom("PDFProcessingError", "ProviderError", NoText)]

\* One attempt of generate_response(query, relevant_chunks), under its
\* timeout, with the chunks find_relevant_chunks returned.
GenerateAttempt ==
    /\ pc = "generate" /\ gr.state = "running"
    /\ \E reply \in ProviderReplies, slow \in BOOLEAN :
          LET r == generate_response(frc.result, reply) IN
          /\ complete_calls' = complete_calls + r.calls
          /\ \E timed_out \in wait_for(slow /\ r.calls > 0, BodySuspends) :
                gr' = retry_async_step(gr, with_timeout(r.out, timed_out, NoText))
    /\ UNCHANGED <<otherVars, pc, response_text, rankVars, retryVars, queryVars>>

\* SpecRanker: the caller passes what find_relevant_chunks returned on to
\* generate_response.
DirectGenerate ==
    /\ pc = "rank" /\ phase = "end" /\ frc.state = "returned"
    /\ pc' = "generate"
    /\ gr' = RetryHandler(2, 2, NoText)
    /\ UNCHANGED <<otherVars, complete_calls, response_text, rankVars, retryVars, queryVars>>

(***************************************************************************)
(* app/api/endpoints/query.py: query_pdf                                   *)
(***************************************************************************)
NoResponse == [status |-> 0, detail |-> "", body |-> NoText]
HTTPException(status, detail) == [status |-> status, detail |-> detail, body |-> NoText]
Success(text) == [status |-> 200, detail |-> "", body |-> text]

UnexpectedError ==
    HTTPException(500, "An unexpected error occurred while processing your query. Please try again later.")

max_download_retries == 3

\* The id of the PDF uploaded earlier; a request names it or an id that no
\* record has.
StoredPdfId == "pdf0"

\* MongoDB.db.pdfs.find_one({"_id": ObjectId(pdf_id)}) finds a record.
find_one(records, names_stored) ==
    names_stored /\ \E r \in records : r.id = StoredPdfId

\* ObjectId.is_valid and MongoDB.db.pdfs.find_one.
QueryFind ==
    /\ pc = "start"
    /\ IF ~req.id_valid
       THEN /\ response' = HTTPException(400, "Invalid PDF ID format")
            /\ pc' = "done"
       ELSE IF ~find_one(pdfs, req.pdf_found)
       THEN /\ response' = HTTPException(404, "PDF not found. Please ensure the PDF was uploaded successfully.")
            /\ pc' = "done"
       ELSE /\ pc' = "download"
            /\ UNCHANGED response
    /\ UNCHANGED <<otherVars, req, dl_attempt, dl_replies, doc, ext, extract_calls, extracted, save_failed,
                   queries, retryVars, rankVars, genVars>>

\* One iteration of the download loop.  The 404 for a last non-200 answer is
\* raised inside the try block, so the `except Exception` clause of the same
\* iteration catches it and raises the 500 of a download error.
QueryDownload ==
    /\ pc = "download"
    /\ \E reply \in {"200", "other_status", "timeout", "error"} :
          IF reply = "200"
          THEN /\ dl_attempt' = 0
               /\ dl_replies' = <<>>
               /\ IF doc.size = 0
                  THEN /\ response' = HTTPException(500, "Failed to download PDF content")
                       /\ pc' = "done"
                       /\ UNCHANGED ext
                  ELSE /\ pc' = "extract"
                       /\ ext' = RetryHandler(3, 1, NoExtraction)
                       /\ UNCHANGED response
          ELSE IF dl_attempt < max_download_retries - 1
          THEN /\ dl_attempt' = dl_attempt + 1
               /\ dl_replies' = Append(dl_replies, reply)
               /\ UNCHANGED <<pc, ext, response>>
          ELSE /\ dl_attempt' = 0
               /\ dl_replies' = Append(dl_replies, reply)
               /\ pc' = "done"
               /\ response' =
                     IF reply = "timeout"
                     THEN HTTPException(408, "PDF download timed out. Please try again later.")
                     ELSE HTTPException(500, "Error downloading PDF from storage. Please try again later.")
               /\ UNCHANGED ext
    /\ UNCHANGED <<otherVars, req, doc, extract_calls, extracted, save_failed, queries,
                   retryVars, rankVars, genVars>>

\* One attempt of extract_text_from_pdf under its timeout, inside
\* process_pdf_with_fallback.
QueryExtractAttempt ==
    /\ pc = "extract" /\ ext.state = "running"
    /\ \E slow \in BOOLEAN :
          /\ overran' = slow
          /\ \E timed_out \in wait_for(overran', BodySuspends) :
                ext' = retry_async_step(ext,
                           with_timeout(extract_text_from_pdf(doc), timed_out,
                                        NoExtraction))
    /\ extract_calls' = extract_calls + 1
    /\ validation_calls' = validation_calls + 1
    /\ UNCHANGED <<validatorVars, chunkerVars, uploadVars, provider_log, upload_log,
                   deleteVars, pc, req, dl_attempt, dl_replies, doc, extracted, save_failed,
                   queries, response, retryVars, rankVars, genVars>>

\* The except clauses of query_pdf around process_pdf_with_fallback; any
\* other exception reaches the last clause of the function.
extraction_error(exc) ==
    IF exc = "PasswordProtectedPDFError"
    THEN HTTPException(400, "This PDF is password protected and cannot be processed. Please upload an unprotected version.")
    ELSE IF exc = "EmptyPDFError"
    THEN HTTPException(400, "This PDF contains no readable text content. Please ensure the PDF has extractable text.")
    ELSE IF exc = "CorruptedPDFError"
    THEN HTTPException(400, "The PDF file appears to be corrupted and cannot be processed. Please try uploading a different file.")
    ELSE UnexpectedError

\* The retried extraction has ended: process_pdf_with_fallback handles it,
\* then query_pdf either answers with an error or chunks the text and calls
\* find_relevant_chunks.  A PartialReadError out of process_pdf_with_fallback
\* makes query_pdf call it once more.
QueryExtracted ==
    /\ pc = "extract" /\ ext.state \in {"returned", "raised"}
    /\ LET r == process_pdf_with_fallback(RetryOutcome(ext), doc)
           c == create_chunks(r.val.text, chunk_size, chunk_overlap)
       IN  IF ~r.ok /\ r.exc = "PartialReadError"
           THEN /\ ext' = RetryHandler(3, 1, NoExtraction)
                /\ UNCHANGED <<pc, extracted, response, chunks, frc, phase>>
           ELSE IF ~r.ok
           THEN /\ response' = extraction_error(r.exc)
                /\ pc' = "done"
                /\ UNCHANGED <<ext, extracted, chunks, frc, phase>>
           ELSE IF ~c.ok
           THEN /\ response' = UnexpectedError
                /\ extracted' = r.val
                /\ pc' = "done"
                /\ UNCHANGED <<ext, chunks, frc, phase>>
           ELSE IF c.val = <<>>
           THEN /\ response' = HTTPException(400, "Unable to process the PDF content. The text may be too short or unreadable.")
                /\ extracted' = r.val
                /\ pc' = "done"
                /\ UNCHANGED <<ext, chunks, frc, phase>>
           ELSE /\ extracted' = r.val
                /\ chunks' = c.val
                /\ frc' = RetryHandler(2, 1, <<>>)
                /\ phase' = "begin"
                /\ pc' = "rank"
                /\ UNCHANGED <<ext, response>>
    /\ UNCHANGED <<otherVars, req, dl_attempt, dl_replies, doc, extract_calls, save_failed, queries,
                   top_k, qvec, cvec, idx, ge, query_embedding, chunk_embeddings,
                   top_indices, retryVars, genVars>>

\* find_relevant_chunks has ended.
QueryRanked ==
    /\ pc = "rank" /\ phase = "end"
    /\ IF frc.state = "raised"
       THEN /\ response' = HTTPException(500, "Error processing your query. Please try again later.")
            /\ pc' = "done"
            /\ UNCHANGED gr
       ELSE /\ pc' = "generate"
            /\ gr' = RetryHandler(2, 2, NoText)
            /\ UNCHANGED response
    /\ UNCHANGED <<otherVars, req, dl_attempt, dl_replies, doc, ext, extract_calls, extracted, save_failed,
                   queries, complete_calls, response_text, retryVars, rankVars>>

\* An answer that never gets the note.
with_note_never(text, info) == text

\* The provenance note appended to the answer of a partial read.
with_note(text, info) ==
    IF info.partial_read
    THEN [text EXCEPT !.note = <<info.readable_pages, info.total_pages>>]
    ELSE text

\* generate_response has ended.
QueryGenerated ==
    /\ pc = "generate" /\ gr.state \in {"returned", "raised"}
    /\ IF gr.state = "raised"
       THEN /\ response' = HTTPException(500, "Error generating response. Please try rephrasing your question.")
            /\ pc' = "done"
            /\ UNCHANGED response_text
       ELSE /\ response_text' = with_note(gr.result, extracted.info)
            /\ pc' = "save"
            /\ UNCHANGED response
    /\ UNCHANGED <<otherVars, req, dl_attempt, dl_replies, doc, ext, extract_calls, extracted, save_failed,
                   queries, gr, complete_calls, retryVars, rankVars>>

\* The insert of the query record, and the return statement.  When the
\* insert raises, the handler only logs; the return statement then reads
\* result.inserted_id with result unbound, and that UnboundLocalError is
\* caught by the last except clause of the function.
QuerySave ==
    /\ pc = "save"
    /\ \E insert_ok \in BOOLEAN :
          IF insert_ok
          THEN /\ queries' = queries \cup {[pdf_id |-> StoredPdfId,
                                            response |-> response_text,
                                            processing_info |-> extracted.info]}
               /\ response' = Success(response_text)
               /\ UNCHANGED save_failed
          ELSE /\ save_failed' = TRUE
               /\ response' = UnexpectedError
               /\ UNCHANGED queries
    /\ pc' = "done"
    /\ UNCHANGED <<otherVars, req, dl_attempt, dl_replies, doc, ext, extract_calls, extracted,
                   retryVars, rankVars, genVars>>

(***************************************************************************)
(* app/api/endpoints/pdf.py: upload_pdf, and MongoDB.save_pdf_metadata     *)
(* (app/db/mongodb.py).  The detail of an answer is the sequence of its    *)
(* words and punctuation marks.                                            *)
(***************************************************************************)
\* Filenames are sequences of characters.
NoFilename == <<>>
NotePdf == <<"n", "o", "t", "e", ".", "p", "d", "f">>
NoteTxt == <<"n", "o", "t", "e", ".", "t", "x", "t">>
NoteUpperPdf == <<"n", "o", "t", "e", ".", "P", "D", "F">>
Filenames == {NoFilename, NotePdf, NoteTxt, NoteUpperPdf}

\* str.endswith
endswith(str, suffix) ==
    /\ Len(str) >= Len(suffix)
    /\ SubSeq(str, Len(str) - Len(suffix) + 1, Len(str)) = suffix

\* `phrase in detail` for a phrase made of whole words.
Contains(detail, phrase) ==
    \E i \in 1..(Len(detail) - Len(phrase) + 1) :
        SubSeq(detail, i, i + Len(phrase) - 1) = phrase

OnlyPdfAllowed ==
    HTTPException(400, <<"Only", "PDF", "files", "are", "allowed", ".", "Please",
                         "ensure", "your", "file", "has", "a", ".pdf", "extension", ".">>)
SizeInvalid ==
    HTTPException(413, <<"File", "size", "invalid", "or", "too", "large",
                         "(", "max", "50MB", ")">>)
InvalidFileType ==
    HTTPException(400, <<"Invalid", "file", "type", ".", "Please", "upload", "a",
                         "valid", "PDF", ".">>)
PasswordProtected ==
    HTTPException(400, <<"Password-protected", "PDFs", "are", "not", "supported", ".">>)
TooManyPages ==
    HTTPException(413, <<"PDF", "has", "too", "many", "pages", "(", "max", "1000", ")", ".">>)
CorruptedOrUnreadable ==
    HTTPException(400, <<"The", "PDF", "appears", "to", "be", "corrupted", "or",
                         "unreadable", ".">>)
StorageError ==
    HTTPException(500, <<"Error", "uploading", "file", "to", "cloud", "storage", ".",
                         "Please", "try", "again", "later", ".">>)
MetadataError ==
    HTTPException(500, <<"Error", "saving", "file", "metadata", ".",
                         "Please", "try", "again", "later", ".">>)
UnexpectedUploadError ==
    HTTPException(500, <<"An", "unexpected", "error", "occurred", "during", "file",
                         "upload", ".", "Please", "try", "again", "later", ".">>)

UploadSuccess(pdf_metadata) == [status |-> 200, detail |-> <<>>, body |-> pdf_metadata]

\* What PyPDF2.PdfReader raises for bytes it cannot open: PdfReadError, or
\* for some malformed files another exception.
ReaderErrors == {"PdfReadError", "Exception"}

\* Checks that report bytes PyPDF2 cannot open as an invalid file type.
upload_checks_unreadable_is_type_error(name, d, reader_error) ==
    IF name = <<>> \/ ~endswith(name, <<".", "p", "d", "f">>) THEN OnlyPdfAllowed
    ELSE IF d.size = 0 \/ d.size > 50 * 1024 * 1024 THEN SizeInvalid
    ELSE IF ~d.signature \/ ~d.parses THEN InvalidFileType
    ELSE IF d.encrypted THEN PasswordProtected
    ELSE LET n == len_pages(d) IN
         IF ~n.ok THEN CorruptedOrUnreadable
         ELSE IF n.val > 1000 THEN TooManyPages
         ELSE NoResponse

\* The checks of upload_pdf before the file is stored (lines 28-70): the
\* answer that ends the request, or NoResponse when every check passed.  An
\* exception that is not an HTTPException reaches the last except clause.
upload_checks(name, d, reader_error) ==
    IF name = <<>> \/ ~endswith(name, <<".", "p", "d", "f">>) THEN OnlyPdfAllowed
    ELSE IF d.size = 0 \/ d.size > 50 * 1024 * 1024 THEN SizeInvalid
    ELSE IF ~d.signature THEN InvalidFileType
    ELSE IF ~d.parses
         THEN (IF reader_error = "PdfReadError" THEN CorruptedOrUnreadable
               ELSE UnexpectedUploadError)
    ELSE IF d.encrypted THEN PasswordProtected
    ELSE LET n == len_pages(d) IN
         IF ~n.ok THEN CorruptedOrUnreadable
         ELSE IF n.val > 1000 THEN TooManyPages
         ELSE NoResponse

\* The dict upload_pdf builds from the answer of the blob store.
cloudinary_data(name, result) ==
    [filename |-> name, cloudinary_url |-> result.secure_url,
     cloudinary_public_id |-> result.public_id, file_size |-> result.bytes,
     created_at |-> "created_at", format |-> "pdf"]

NoPdfRecord == [id |-> "None", filename |-> <<>>, cloudinary_url |-> "None",
                cloudinary_public_id |-> "None", file_size |-> 0]

\* A PDF uploaded earlier: its record, the public id of its blob.
StoredPdf == [id |-> StoredPdfId, filename |-> NotePdf, cloudinary_url |-> "url0",
              cloudinary_public_id |-> "id0", file_size |-> 1024]

\* MongoDB.save_pdf_metadata(filename, cloudinary_data): the record it
\* inserts.  Reading a key the dict does not have raises KeyError.
save_pdf_metadata(name, data, insert_ok) ==
    IF ~({"secure_url", "public_id", "bytes", "created_at", "format"}
            \subseteq DOMAIN data)
    THEN Raise("KeyError", NoPdfRecord)
    ELSE IF ~insert_ok THEN Raise("PyMongoError", NoPdfRecord)
    ELSE Return([id |-> "pdf1", filename |-> name, cloudinary_url |-> data.secure_url,
                 cloudinary_public_id |-> data.public_id, file_size |-> data.bytes])

\* A request that stores the file before it checks it.
UploadCheck_stores_before_checking ==
    /\ pc = "upload"
    /\ blobs' = blobs \cup {"id"}
    /\ \E reader_error \in ReaderErrors :
          LET r == upload_checks(filename, doc, reader_error) IN
          IF r = NoResponse
          THEN pc' = "upload_store" /\ UNCHANGED upload_response
          ELSE pc' = "uploaded" /\ upload_response' = r
    /\ UNCHANGED <<overran, filename, validation, chunkerVars, upload_result, pdfs,
                   validation_calls, provider_log, upload_log, deleteVars,
                   retryVars, queryVars, rankVars, genVars>>

\* The filename check, file.read() and the checks on the content.
UploadCheck ==
    /\ pc = "upload"
    /\ \E reader_error \in ReaderErrors :
          LET r == upload_checks(filename, doc, reader_error) IN
          IF r = NoResponse
          THEN pc' = "upload_store" /\ UNCHANGED upload_response
          ELSE pc' = "uploaded" /\ upload_response' = r
    /\ UNCHANGED <<overran, filename, validation, chunkerVars, upload_result, blobs, pdfs,
                   validation_calls, provider_log, upload_log, deleteVars,
                   retryVars, queryVars, rankVars, genVars>>

\* A blob store that reports a deletion it did not make.
destroy_keeps_blob(blob_set, public_id) ==
    {[report |-> r, blobs |-> blob_set] : r \in {"ok", "error", "raise"}}

\* cloudinary.uploader.destroy(public_id): what it reports and the blob store
\* afterwards.  "ok": the blob was deleted; "not found": there was no such
\* blob; "error": any other result; "raise": the call raised.
destroy(blob_set, public_id) ==
    (IF public_id \in blob_set
     THEN {[report |-> "ok", blobs |-> blob_set \ {public_id}]}
     ELSE {[report |-> "not found", blobs |-> blob_set]})
    \cup {[report |-> r, blobs |-> blob_set] : r \in {"error", "raise"}}

\* cloudinary.uploader.upload(file.file, resource_type="raw").
UploadStore ==
    /\ pc = "upload_store"
    /\ \E stored \in BOOLEAN :
          IF stored
          THEN /\ upload_result' = [secure_url |-> "url", public_id |-> "id",
                                    bytes |-> doc.size]
               /\ blobs' = blobs \cup {"id"}
               /\ pc' = "upload_save"
               /\ UNCHANGED upload_response
          ELSE /\ upload_response' = StorageError
               /\ pc' = "uploaded"
               /\ UNCHANGED <<upload_result, blobs>>
    /\ upload_log' = [upload_log EXCEPT !.upload_calls = @ + 1]
    /\ UNCHANGED <<overran, filename, validation, chunkerVars, pdfs,
                   validation_calls, provider_log, deleteVars,
                   retryVars, queryVars, rankVars, genVars>>

\* MongoDB.save_pdf_metadata, the cleanup of the stored file when it raised
\* (the result of cloudinary.uploader.destroy is not looked at and its own
\* failure is only logged), and the answer.
UploadSave ==
    /\ pc = "upload_save"
    /\ \E insert_ok \in BOOLEAN :
          LET saved == save_pdf_metadata(filename,
                                         cloudinary_data(filename, upload_result),
                                         insert_ok)
          IN  IF saved.ok
              THEN /\ pdfs' = pdfs \cup {saved.val}
                   /\ upload_response' = UploadSuccess(saved.val)
                   /\ upload_log' = [upload_log EXCEPT !.insert_calls = @ + 1,
                                                       !.insert_accepted = insert_ok]
                   /\ UNCHANGED blobs
              ELSE \E d \in destroy(blobs, upload_result.public_id) :
                      /\ blobs' = d.blobs
                      /\ upload_log' = [upload_log EXCEPT
                                            !.insert_calls = IF saved.exc = "KeyError"
                                                             THEN @ ELSE @ + 1,
                                            !.insert_accepted = insert_ok,
                                            !.cleanup = d.report]
                      /\ upload_response' = MetadataError
                      /\ UNCHANGED pdfs
    /\ pc' = "uploaded"
    /\ UNCHANGED <<overran, filename, validation, chunkerVars, upload_result,
                   validation_calls, provider_log, deleteVars, retryVars, queryVars,
                   rankVars, genVars>>

(***************************************************************************)
(* app/api/endpoints/pdf.py: delete_pdf, for a request made while a        *)
(* query_pdf request may be in progress.                                   *)
(***************************************************************************)
NoDeleteResponse == [status |-> 0, detail |-> "", deleted_queries_count |-> 0]

DeleteError(status, detail) ==
    [status |-> status, detail |-> detail, deleted_queries_count |-> 0]

DeleteSuccess(deleted_count) ==
    [status |-> 200, detail |-> "", deleted_queries_count |-> deleted_count]

\* Steps 1 and 2: ObjectId.is_valid and pdfs.find_one.
DeleteFind ==
    /\ dpc = "start"
    /\ \E id_valid \in BOOLEAN, names_stored \in BOOLEAN :
          IF ~id_valid
          THEN /\ del_response' = DeleteError(400, "Invalid PDF ID format")
               /\ dpc' = "done"
          ELSE IF ~find_one(pdfs, names_stored)
          THEN /\ del_response' = DeleteError(404, "PDF not found")
               /\ dpc' = "done"
          ELSE /\ dpc' = "destroy"
               /\ UNCHANGED del_response
    /\ UNCHANGED <<overran, validatorVars, chunkerVars, uploadVars, validation_calls,
                   provider_log, upload_log, destroy_result, pc, retryVars, queryVars,
                   rankVars, genVars>>

\* A step 3 that goes on whatever the blob store reported.
DeleteDestroy_ignores_result ==
    /\ dpc = "destroy"
    /\ \E d \in destroy(blobs, StoredPdf.cloudinary_public_id) :
          /\ blobs' = d.blobs
          /\ destroy_result' = d.report
    /\ dpc' = "queries"
    /\ UNCHANGED <<overran, validatorVars, chunkerVars, upload_result, upload_response,
                   pdfs, validation_calls, provider_log, upload_log, del_response, pc,
                   retryVars, queryVars, rankVars, genVars>>

\* Step 3: cloudinary.uploader.destroy for the public id of the record.
\* 'not found' and 'ok' let the request go on; any other result, and an
\* exception of the call, end it in the last except clause.
DeleteDestroy ==
    /\ dpc = "destroy"
    /\ \E d \in destroy(blobs, StoredPdf.cloudinary_public_id) :
          /\ blobs' = d.blobs
          /\ destroy_result' = d.report
          /\ IF d.report \in {"not found", "ok"}
             THEN /\ dpc' = "queries"
                  /\ UNCHANGED del_response
             ELSE /\ dpc' = "done"
                  /\ del_response' =
                        IF d.report = "raise"
                        THEN DeleteError(500, "Error deleting PDF: cloudinary error")
                        ELSE DeleteError(500, "Error deleting PDF: Failed to delete from Cloudinary")
    /\ UNCHANGED <<overran, validatorVars, chunkerVars, upload_result, upload_response,
                   pdfs, validation_calls, provider_log, upload_log, pc,
                   retryVars, queryVars, rankVars, genVars>>

\* Step 4: queries.delete_many({"pdf_id": pdf_id}); the count of the deleted
\* records is kept for the answer.
DeleteQueries ==
    /\ dpc = "queries"
    /\ \E store_ok \in BOOLEAN :
          IF store_ok
          THEN /\ queries' = {q \in queries : q.pdf_id # StoredPdfId}
               /\ del_response' =
                     [del_response EXCEPT !.deleted_queries_count =
                          Cardinality({q \in queries : q.pdf_id = StoredPdfId})]
               /\ dpc' = "record"
          ELSE /\ del_response' = DeleteError(500, "Error deleting PDF: store error")
               /\ dpc' = "done"
               /\ UNCHANGED queries
    /\ UNCHANGED <<overran, validatorVars, chunkerVars, uploadVars, validation_calls,
                   provider_log, upload_log, destroy_result, pc, req, dl_attempt,
                   dl_replies, doc, ext, extract_calls, extracted, save_failed, response,
                   retryVars, rankVars, genVars>>

\* Step 5: pdfs.delete_one and the answer.
DeleteRecord ==
    /\ dpc = "record"
    /\ \E store_ok \in BOOLEAN :
          IF ~store_ok
          THEN /\ del_response' = DeleteError(500, "Error deleting PDF: store error")
               /\ UNCHANGED pdfs
          ELSE IF ~find_one(pdfs, TRUE)
          THEN /\ del_response' = DeleteError(500, "Error deleting PDF: Failed to delete PDF from MongoDB")
               /\ UNCHANGED pdfs
          ELSE /\ pdfs' = {r \in pdfs : r.id # StoredPdfId}
               /\ del_response' = DeleteSuccess(del_response.deleted_queries_count)
    /\ dpc' = "done"
    /\ UNCHANGED <<overran, validatorVars, chunkerVars, upload_result, upload_response,
                   blobs, validation_calls, provider_log, upload_log, destroy_result, pc,
                   retryVars, queryVars, rankVars, genVars>>

(***************************************************************************)
(* Specifications                                                          *)
(***************************************************************************)
NoRequest == [id_valid |-> FALSE, pdf_found |-> FALSE]

NoUploadResult == [secure_url |-> "None", public_id |-> "None", bytes |-> 0]

\* upload_calls: the calls of cloudinary.uploader.upload; insert_calls: the
\* calls of pdfs.insert_one; insert_accepted: the metadata store accepts
\* inserts; cleanup: what the cleanup call of cloudinary.uploader.destroy
\* reported ("none": no such call).
NoUploadLog == [upload_calls |-> 0, insert_calls |-> 0, insert_accepted |-> FALSE,
                cleanup |-> "none"]

\* No call of the embedding provider yet.
NoProviderCalls == [all_failed |-> TRUE, query_calls |-> 0]

InitRetryIdle ==
    /\ rh = IdleFrame("none")
    /\ observed = <<>>

InitQueryIdle ==
    /\ req = NoRequest
    /\ dl_attempt = 0
    /\ dl_replies = <<>>
    /\ doc = NoPdf
    /\ ext = IdleFrame(NoExtraction)
    /\ extract_calls = 0
    /\ extracted = NoExtraction
    /\ save_failed = FALSE
    /\ queries = {}
    /\ response = NoResponse

InitRankLocals ==
    /\ phase = "begin"
    /\ idx = 0
    /\ ge = IdleFrame(NoVec)
    /\ query_embedding = NoVec
    /\ chunk_embeddings = <<>>
    /\ top_indices = <<>>

InitGenIdle ==
    /\ gr = IdleFrame(NoText)
    /\ complete_calls = 0
    /\ response_text = NoText
    /\ overran = FALSE

InitValidatorIdle ==
    /\ filename = <<>>
    /\ validation = Return(NoValidation)

InitChunkerIdle ==
    /\ input_text = <<>>
    /\ chunker = [chunk_size |-> chunk_size, chunk_overlap |-> chunk_overlap]
    /\ chunked = Return(<<>>)

InitUploadIdle ==
    /\ upload_result = NoUploadResult
    /\ upload_response = NoResponse
    /\ upload_log = NoUploadLog
    /\ blobs = {}
    /\ pdfs = {}

\* The stores hold the PDF uploaded earlier and no upload is in progress.
InitStored ==
    /\ upload_result = NoUploadResult
    /\ upload_response = NoResponse
    /\ upload_log = NoUploadLog
    /\ blobs = {StoredPdf.cloudinary_public_id}
    /\ pdfs = {StoredPdf}

InitDeleteIdle ==
    /\ dpc = "idle"
    /\ destroy_result = "None"
    /\ del_response = NoDeleteResponse

InitCounters ==
    /\ validation_calls = 0
    /\ provider_log = NoProviderCalls

\* retry_on_failure(max_retries, base_delay) around some coroutine function.
InitRetry ==
    /\ pc = "retry"
    /\ \E m \in 0..MaxRetriesTried, b \in {1, 2, 16, 100} : rh = RetryHandler(m, b, "none")
    /\ observed = <<>>
    /\ InitQueryIdle
    /\ chunks = <<>> /\ top_k = 3 /\ qvec = NoVec /\ cvec = <<>>
    /\ frc = IdleFrame(<<>>)
    /\ InitRankLocals
    /\ InitGenIdle
    /\ InitValidatorIdle
    /\ InitChunkerIdle
    /\ InitUploadIdle
    /\ InitDeleteIdle
    /\ InitCounters

NextRetry == RetryAttempt

SpecRetry == InitRetry /\ [][NextRetry]_vars

\* find_relevant_chunks(query, chunks, top_k) for a list of up to MaxChunks
\* chunks (chunk i is the one-word text <<i>>), then generate_response.
InitRanker ==
    /\ pc = "rank"
    /\ InitRetryIdle
    /\ InitQueryIdle
    /\ \E n \in 0..MaxChunks :
          /\ chunks = [i \in 1..n |-> <<i>>]
          /\ cvec \in [1..n -> Vecs]
    /\ top_k \in 0..MaxTopK
    /\ qvec \in Vecs
    /\ frc = RetryHandler(2, 1, <<>>)
    /\ InitRankLocals
    /\ InitGenIdle
    /\ InitValidatorIdle
    /\ InitChunkerIdle
    /\ InitUploadIdle
    /\ InitDeleteIdle
    /\ InitCounters

NextRanker ==
    \/ FrcBegin
    \/ GetEmbeddingsAttempt
    \/ FrcQueryEmbedded
    \/ FrcChunkEmbedded
    \/ FrcSelect
    \/ DirectGenerate
    \/ GenerateAttempt

SpecRanker == InitRanker /\ [][NextRanker]_vars

\* PDFValidator().comprehensive_validation(pdf_content, len(pdf_content),
\* filename) for some bytes under some filename (None when not given).

ValidatorCall ==
    /\ pc = "validate"
    /\ validation' = comprehensive_validation(doc, doc.size)
    /\ validation_calls' = validation_calls + 1
    /\ pc' = "validated"
    /\ UNCHANGED <<overran, filename, chunkerVars, uploadVars, provider_log, upload_log,
                   deleteVars, retryVars, queryVars,
                   rankVars, genVars>>

InitValidator ==
    /\ pc = "validate"
    /\ InitRetryIdle
    /\ req = NoRequest
    /\ dl_attempt = 0
    /\ dl_replies = <<>>
    /\ doc \in Docs
    /\ ext = IdleFrame(NoExtraction)
    /\ extract_calls = 0
    /\ extracted = NoExtraction
    /\ save_failed = FALSE
    /\ queries = {}
    /\ response = NoResponse
    /\ chunks = <<>> /\ top_k = 3 /\ qvec = NoVec /\ cvec = <<>>
    /\ frc = IdleFrame(<<>>)
    /\ InitRankLocals
    /\ InitGenIdle
    /\ filename \in Filenames
    /\ validation = Return(NoValidation)
    /\ InitChunkerIdle
    /\ InitUploadIdle
    /\ InitDeleteIdle
    /\ InitCounters

NextValidator == ValidatorCall

SpecValidator == InitValidator /\ [][NextValidator]_vars

\* create_chunks(text) for a text of up to MaxTextLen characters and a
\* processor whose chunk_size and chunk_overlap were set to small values.
Chars == {"a", "b", " "}

RECURSIVE Texts(_)
Texts(n) ==
    IF n = 0 THEN {<<>>}
    ELSE Texts(n - 1)
         \cup {Append(t, c) : t \in {x \in Texts(n - 1) : Len(x) = n - 1}, c \in Chars}

InitChunker ==
    /\ pc = "chunk"
    /\ InitRetryIdle
    /\ InitQueryIdle
    /\ chunks = <<>> /\ top_k = 3 /\ qvec = NoVec /\ cvec = <<>>
    /\ frc = IdleFrame(<<>>)
    /\ InitRankLocals
    /\ InitGenIdle
    /\ InitValidatorIdle
    /\ input_text \in Texts(MaxTextLen)
    /\ chunker \in [chunk_size : 1..MaxChunkSize, chunk_overlap : 0..(MaxChunkSize + 1)]
    /\ chunked = Return(<<>>)
    /\ InitUploadIdle
    /\ InitDeleteIdle
    /\ InitCounters

NextChunker == ChunkerCall

SpecChunker == InitChunker /\ [][NextChunker]_vars

\* One upload_pdf request: a file of some name and content; the stores are
\* empty or hold a PDF uploaded earlier.
InitUpload ==
    /\ pc = "upload"
    /\ InitRetryIdle
    /\ req = NoRequest
    /\ dl_attempt = 0
    /\ dl_replies = <<>>
    /\ doc \in Docs
    /\ ext = IdleFrame(NoExtraction)
    /\ extract_calls = 0
    /\ extracted = NoExtraction
    /\ save_failed = FALSE
    /\ queries = {}
    /\ response = NoResponse
    /\ chunks = <<>> /\ top_k = 3 /\ qvec = NoVec /\ cvec = <<>>
    /\ frc = IdleFrame(<<>>)
    /\ InitRankLocals
    /\ InitGenIdle
    /\ filename \in Filenames
    /\ validation = Return(NoValidation)
    /\ InitChunkerIdle
    /\ upload_result = NoUploadResult
    /\ upload_response = NoResponse
    /\ upload_log = NoUploadLog
    /\ \E stored \in BOOLEAN :
          /\ blobs = IF stored THEN {StoredPdf.cloudinary_public_id} ELSE {}
          /\ pdfs = IF stored THEN {StoredPdf} ELSE {}
    /\ InitDeleteIdle
    /\ InitCounters

NextUpload ==
    \/ UploadCheck
    \/ UploadStore
    \/ UploadSave

SpecUpload == InitUpload /\ [][NextUpload]_vars

\* One query_pdf request for a PDF whose stored bytes are doc.  query_pdf
\* calls find_relevant_chunks with the default top_k.
Init ==
    /\ pc = "start"
    /\ InitRetryIdle
    /\ req \in [id_valid : BOOLEAN, pdf_found : BOOLEAN]
    /\ dl_attempt = 0
    /\ dl_replies = <<>>
    /\ doc \in Docs
    /\ ext = IdleFrame(NoExtraction)
    /\ extract_calls = 0
    /\ extracted = NoExtraction
    /\ save_failed = FALSE
    /\ queries = {}
    /\ response = NoResponse
    /\ chunks = <<>>
    /\ top_k = 3
    /\ qvec \in Vecs
    /\ cvec = [i \in 1..MaxChunks |-> <<1, 0>>]
    /\ frc = IdleFrame(<<>>)
    /\ InitRankLocals
    /\ InitGenIdle
    /\ InitValidatorIdle
    /\ InitChunkerIdle
    /\ InitStored
    /\ InitDeleteIdle
    /\ InitCounters

Next ==
    \/ QueryFind
    \/ QueryDownload
    \/ QueryExtractAttempt
    \/ QueryExtracted
    \/ FrcBegin
    \/ GetEmbeddingsAttempt
    \/ FrcQueryEmbedded
    \/ FrcChunkEmbedded
    \/ FrcSelect
    \/ QueryRanked
    \/ GenerateAttempt
    \/ QueryGenerated
    \/ QuerySave

Spec == Init /\ [][Next]_vars

\* A query record made for the stored PDF by an earlier query_pdf request.
StoredQuery == [pdf_id |-> StoredPdfId, response |-> NoContentText,
                processing_info |-> NoInfo]

\* The stored PDF: one page of text.
StoredDoc == [size |-> 1024, signature |-> TRUE, parses |-> TRUE, encrypted |-> FALSE,
              page_tree |-> TRUE, pages |-> <<Run("text", 1)>>]

\* One delete_pdf request and one query_pdf request, served concurrently by
\* the event loop: each action is the code of one request between two of its
\* awaits.  The stores hold the PDF and a query record of it.
InitDelete ==
    /\ pc = "start"
    /\ InitRetryIdle
    /\ req \in [id_valid : BOOLEAN, pdf_found : BOOLEAN]
    /\ dl_attempt = 0
    /\ dl_replies = <<>>
    /\ doc = StoredDoc
    /\ ext = IdleFrame(NoExtraction)
    /\ extract_calls = 0
    /\ extracted = NoExtraction
    /\ save_failed = FALSE
    /\ queries = {StoredQuery}
    /\ response = NoResponse
    /\ chunks = <<>>
    /\ top_k = 3
    /\ qvec = <<1, 0>>
    /\ cvec = [i \in 1..MaxChunks |-> <<1, 0>>]
    /\ frc = IdleFrame(<<>>)
    /\ InitRankLocals
    /\ InitGenIdle
    /\ InitValidatorIdle
    /\ InitChunkerIdle
    /\ InitStored
    /\ dpc = "start"
    /\ destroy_result = "None"
    /\ del_response = NoDeleteResponse
    /\ InitCounters

NextDelete ==
    \/ Next
    \/ DeleteFind
    \/ DeleteDestroy
    \/ DeleteQueries
    \/ DeleteRecord

SpecDelete == InitDelete /\ [][NextDelete]_vars

(***************************************************************************)
(* Properties                                                              *)
(***************************************************************************)
ExtractionEnded == ext.state \in {"returned", "raised"}

\* The error kinds of the validation and integrity classes.
IntegrityKinds == {"LargeFileError", "InvalidMimeTypeError", "TooManyPagesError",
                   "CorruptedPDFError", "PasswordProtectedPDFError", "EmptyPDFError"}

RaisedInside(d) == extract_text_from_pdf_try(d)

\* C1: once the body of extract_text_from_pdf has raised a validation or
\* integrity error, the retried call has ended after that single attempt,
\* without any backoff sleep, and with that same error kind for the caller.
C1_IntegrityErrorsNotRetried ==
    (pc = "extract" /\ extract_calls >= 1
        /\ ~RaisedInside(doc).ok /\ RaisedInside(doc).exc \in IntegrityKinds)
    => /\ ExtractionEnded
       /\ extract_calls = 1
       /\ ext.slept = <<>>
       /\ RetryOutcome(ext).exc = RaisedInside(doc).exc

\* C2: when the extractor detects partial content, process_pdf_with_fallback
\* returns the text of the readable pages with partial_read and
\* fallback_used set.
C2_PartialContentFallsBack ==
    (ExtractionEnded /\ RaisedInside(doc).exc = "PartialReadError")
    => LET r == process_pdf_with_fallback(RetryOutcome(ext), doc) IN
       /\ r.ok
       /\ r.val.text = PageLoop(doc).text
       /\ r.val.info.partial_read
       /\ r.val.info.fallback_used

\* C3: a query whose record could not be saved still answers 200 with the
\* generated answer text.
C3_SaveFailureStillAnswers ==
    (pc = "done" /\ save_failed)
    => response = Success(response_text)

\* Documents of acceptable size and signature that are password protected,
\* without readable text, or corrupted.
Acceptable(d) == d.size > 0 /\ d.size <= max_file_size /\ d.signature
IsPasswordProtected(d) == Acceptable(d) /\ d.parses /\ d.encrypted
IsCorrupted(d) == Acceptable(d) /\ ~d.parses
HasNoText(d) ==
    /\ Acceptable(d) /\ d.parses /\ ~d.encrypted /\ d.page_tree
    /\ TotalPages(d.pages) <= max_pages
    /\ PageLoop(d).text = <<>>

\* C4: a query on a password-protected PDF, on a PDF without readable text
\* and on a corrupted PDF each ends with the 400 response carrying the
\* message of that failure.
C4_ExtractionFailuresHaveOwnMessage ==
    (pc = "done" /\ ExtractionEnded)
    => /\ IsPasswordProtected(doc)
            => response = extraction_error("PasswordProtectedPDFError")
       /\ HasNoText(doc) => response = extraction_error("EmptyPDFError")
       /\ IsCorrupted(doc) => response = extraction_error("CorruptedPDFError")

AllFailed(s) == \A i \in 1..Len(s) : ~s[i].ok

\* C5: the wrapped operation is invoked until it first succeeds and never
\* after; the wrapper returns the result of that k-th invocation.  When all
\* max_retries + 1 invocations failed there is no further one and the wrapper
\* raises RetryExhaustedError from the last error.
C5_RetryStopsAtFirstSuccessOrExhausts ==
    pc = "retry" =>
       /\ rh.state = "running"
            => AllFailed(observed) /\ Len(observed) <= rh.max_retries
       /\ rh.state = "returned"
            => /\ Len(observed) \in 1..(rh.max_retries + 1)
               /\ AllFailed(SubSeq(observed, 1, Len(observed) - 1))
               /\ observed[Len(observed)].ok
               /\ rh.result = observed[Len(observed)].val
       /\ rh.state = "raised"
            => /\ Len(observed) = rh.max_retries + 1
               /\ AllFailed(observed)
               /\ rh.exc = "RetryExhaustedError"
               /\ rh.cause = observed[Len(observed)].exc

\* Fail, fail, succeed with max_retries = 3: the result after 3 invocations.
C5_Witness ==
    /\ pc = "retry" /\ rh.max_retries = 3 /\ rh.state = "returned"
    /\ Len(observed) = 3 /\ rh.result = observed[3].val

\* find_relevant_chunks has returned a selection made from embeddings.
Ranked == pc = "rank" /\ phase = "end" /\ frc.state = "returned" /\ chunks # <<>>

\* sim(chunk a) >= sim(chunk b), each with its own embedding.
SimGeq(a, b) == CosLeq(qvec, cvec[b], cvec[a])

\* C6 (for top_k >= 1 and every chunk embedded): the returned chunks are in
\* descending order of similarity.
C6_HighestSimilarityFirst ==
    (Ranked /\ top_k >= 1 /\ Len(chunk_embeddings) = Len(chunks))
    => \A i, j \in 1..Len(frc.result) :
          i < j => SimGeq(frc.result[i], frc.result[j])

Range(s) == {s[i] : i \in 1..Len(s)}

\* C7 (for top_k >= 1): the returned chunks are min(top_k, number embedded)
\* chunks that were embedded, and no embedded chunk left out is more similar
\* to the query than a returned one.
C7_ReturnsTopKByOwnEmbedding ==
    (Ranked /\ top_k >= 1)
    => LET S == Range(frc.result)
           E == {chunk_embeddings[i].of : i \in 1..Len(chunk_embeddings)}
       IN  /\ S \subseteq E
           /\ Cardinality(S) = Min(top_k, Cardinality(E))
           /\ \A c \in S, d \in E \ S : SimGeq(c, d)

\* C8: never more than top_k chunks are returned, and every index used to
\* select lies inside the chunk list.
C8_AtMostTopKInsideChunks ==
    (pc = "rank" /\ phase = "end" /\ frc.state = "returned")
    => /\ Len(frc.result) <= top_k
       /\ \A i \in Range(top_indices) : i \in 1..Len(chunks)

\* C9: for top_k >= 1 the ranker returns exactly min(top_k, n) chunks for n
\* chunk vectors, and for an empty chunk list it returns the empty list
\* instead of raising.
C9_ReturnsMinTopKOrAll ==
    (pc = "rank" /\ phase = "end" /\ top_k >= 1)
    => /\ frc.state = "returned"
            => Len(frc.result) = Min(top_k, Len(chunk_embeddings))
       /\ chunks = <<>> => frc.state = "returned" /\ frc.result = <<>>

\* Fewer chunk vectors than top_k: all of them are returned.
C9_Witness ==
    /\ pc = "rank" /\ phase = "end" /\ frc.state = "returned"
    /\ top_k = 3 /\ Len(chunk_embeddings) = 2 /\ Len(frc.result) = 2

\* C10: generate_response called with no relevant chunks returns the fixed
\* no-relevant-content text, and the generation provider is not called.
C10_NoChunksNoProviderCall ==
    (pc = "generate" /\ frc.result = <<>>)
    => /\ complete_calls = 0
       /\ gr.state # "running"
            => gr.state = "returned" /\ gr.result = NoContentText

C10_Witness ==
    /\ pc = "generate" /\ frc.result = <<>>
    /\ gr.state = "returned" /\ gr.result = NoContentText /\ complete_calls = 0

StructurallyValid(d) ==
    d.signature /\ d.parses /\ d.page_tree /\ ~d.encrypted

\* C12: for a structurally valid, unencrypted PDF of an allowed size whose
\* page count exceeds max_pages, the validation fails with TooManyPagesError
\* and no other kind.
C12_TooManyPagesIsReported ==
    (pc = "validated" /\ StructurallyValid(doc)
        /\ doc.size > 0 /\ doc.size <= max_file_size
        /\ TotalPages(doc.pages) > max_pages)
    => (~validation.ok /\ validation.exc = "TooManyPagesError")

\* C13: the validation fails with LargeFileError exactly when the size is 0
\* or exceeds max_file_size.
C13_ZeroOrOversizeIsTooLarge ==
    pc = "validated" =>
        ((~validation.ok /\ validation.exc = "LargeFileError")
            <=> (doc.size = 0 \/ doc.size > max_file_size))

\* C14 as stated: bytes that do not start with the PDF signature fail the
\* validation with InvalidMimeTypeError, whatever their size and filename.
C14_NoSignatureAnySize ==
    (pc = "validated" /\ ~doc.signature)
    => (~validation.ok /\ validation.exc = "InvalidMimeTypeError")

\* C14: bytes of at most max_file_size that do not start with the PDF signature
\* fail the validation with InvalidMimeTypeError, whatever their filename
\* (the size is checked before the signature).
C14_NoSignatureWithinSize ==
    (pc = "validated" /\ ~doc.signature /\ doc.size <= max_file_size)
    => (~validation.ok /\ validation.exc = "InvalidMimeTypeError")

\* Text bytes named *.pdf were rejected for their content.
C14_Witness ==
    /\ pc = "validated" /\ ~doc.signature /\ doc.size = 1024
    /\ filename = NotePdf
    /\ validation.exc = "InvalidMimeTypeError"

\* The upload is named *.pdf and its size is allowed.
NamedPdfWithinSize ==
    /\ endswith(filename, <<".", "p", "d", "f">>)
    /\ doc.size > 0 /\ doc.size <= max_file_size

\* C15: an upload named *.pdf whose content does not start with the PDF
\* signature is answered with status 400 and a detail that contains the
\* words 'not a valid PDF'.
C15_RenamedFileRejectedAsNotAValidPdf ==
    (pc = "uploaded" /\ NamedPdfWithinSize /\ ~doc.signature)
    => /\ upload_response.status = 400
       /\ Contains(upload_response.detail, <<"not", "a", "valid", "PDF">>)

C17_OverlapNotBelowSizeFails ==
    (pc = "chunked" /\ chunker.chunk_overlap >= chunker.chunk_size)
    => ~chunked.ok

\* The first advance words of every chunk, one chunk after the other.
RECURSIVE FirstWords(_, _)
FirstWords(chunk_list, advance) ==
    IF chunk_list = <<>> THEN <<>>
    ELSE LET w == split(Head(chunk_list)) IN
         SubSeq(w, 1, Min(advance, Len(w))) \o FirstWords(Tail(chunk_list), advance)

\* C18 as stated: with chunk_size > chunk_overlap >= 0 the empty text gives
\* no chunk, every non-empty text gives at least one chunk, and the first
\* (chunk_size - chunk_overlap) words of the chunks, concatenated, are the
\* words of the text.
C18_NonEmptyTextHasChunk ==
    (pc = "chunked" /\ chunker.chunk_size > chunker.chunk_overlap)
    => /\ chunked.ok
       /\ input_text = <<>> => chunked.val = <<>>
       /\ input_text # <<>> => Len(chunked.val) >= 1
       /\ FirstWords(chunked.val, chunker.chunk_size - chunker.chunk_overlap)
             = split(input_text)

\* C18: with chunk_size > chunk_overlap >= 0 a text without any word (empty
\* or white space only) gives no chunk, a text with at least one word gives
\* at least one chunk, and the first (chunk_size - chunk_overlap) words of
\* the chunks, concatenated, are the words of the text.
C18_TextWithWordsHasChunk ==
    (pc = "chunked" /\ chunker.chunk_size > chunker.chunk_overlap)
    => /\ chunked.ok
       /\ split(input_text) = <<>> => chunked.val = <<>>
       /\ split(input_text) # <<>> => Len(chunked.val) >= 1
       /\ FirstWords(chunked.val, chunker.chunk_size - chunker.chunk_overlap)
             = split(input_text)

\* Three words chunked two by two with an overlap of one word.
C18_Witness ==
    /\ pc = "chunked"
    /\ chunker = [chunk_size |-> 2, chunk_overlap |-> 1]
    /\ split(input_text) = <<<<"a">>, <<"b">>, <<"a">>>>
    /\ chunked.val = <<<<"a", " ", "b">>, <<"b", " ", "a">>, <<"a">>>>

\* The number of pages of the layout that give text.
RECURSIVE TextPageCount(_)
TextPageCount(runs) ==
    IF runs = <<>> THEN 0
    ELSE (IF Head(runs).kind = "text" THEN Head(runs).n ELSE 0)
         + TextPageCount(Tail(runs))

\* The body of extract_text_from_pdf gets to iterate the pages of the PDF.
PagesAreIterated(d) ==
    /\ StructurallyValid(d)
    /\ d.size > 0 /\ d.size <= max_file_size
    /\ TotalPages(d.pages) <= max_pages

\* C19: an attempt of extract_text_from_pdf on a PDF whose pages it can
\* iterate ends with EmptyPDFError when no page gives text, with
\* PartialReadError exactly when some page gives text and
\* readable_pages * 2 < total_pages, and returns the text otherwise, in
\* particular when readable_pages * 2 = total_pages.
C19_EmptyPartialOrSuccess ==
    (pc = "extract" /\ extract_calls >= 1 /\ PagesAreIterated(doc))
    => LET readable == TextPageCount(doc.pages)
           total == TotalPages(doc.pages)
       IN  IF readable = 0
           THEN ext.state # "returned" /\ ext.last_exception = "EmptyPDFError"
           ELSE IF readable * 2 < total
           THEN ext.state # "returned" /\ ext.last_exception = "PartialReadError"
           ELSE /\ ext.state = "returned"
                /\ ext.result.text # <<>>
                /\ ext.result.info.readable_pages = readable
                /\ ext.result.info.total_pages = total

\* Exactly half of the pages gave text and the extraction returned.
C19_Witness ==
    /\ pc = "extract" /\ extract_calls >= 1 /\ PagesAreIterated(doc)
    /\ TextPageCount(doc.pages) >= 1
    /\ TextPageCount(doc.pages) * 2 = TotalPages(doc.pages)
    /\ ext.state = "returned"

\* C20: an attempt of the timed extract_text_from_pdf on a PDF whose pages
\* it iterates, and whose body lasted longer than the timeout, has ended
\* with ProcessingTimeoutError, which the retry wrapper has taken as a
\* failed attempt.
C20_OverrunEndsWithTimeout ==
    (pc = "extract" /\ extract_calls >= 1 /\ overran /\ PagesAreIterated(doc))
    => /\ ext.state # "returned"
       /\ ext.last_exception = "ProcessingTimeoutError"

\* C21: within one extraction request comprehensive_validation runs at most
\* once, however many attempts the retry wrapper makes.
C21_ValidatorRunsAtMostOnce ==
    validation_calls <= 1

\* C22: the delay slept after failed attempt a (counted from 0) is
\* min(base_delay * 2^a, max_delay): the first delay is base_delay or the cap,
\* each later one is twice the one before or the cap, so the delays never
\* decrease and never exceed max_delay; a delay is slept after every failed
\* attempt but the last one allowed.
C22_DelaysDoubleUpToCap ==
    pc = "retry" =>
       /\ Len(rh.slept) = rh.attempt
       /\ \A i \in 1..Len(rh.slept) :
             /\ rh.slept[i] <= rh.max_delay
             /\ i = 1 => rh.slept[i] = IF rh.base_delay <= rh.max_delay
                                       THEN rh.base_delay ELSE rh.max_delay
             /\ i > 1 => /\ rh.slept[i - 1] <= rh.slept[i]
                         /\ rh.slept[i] = IF 2 * rh.slept[i - 1] <= rh.max_delay
                                          THEN 2 * rh.slept[i - 1]
                                          ELSE rh.max_delay

\* base_delay 16 and three failures: 16 s, 32 s, then the cap of 60 s.
C22_Witness ==
    /\ pc = "retry" /\ rh.base_delay = 16
    /\ rh.slept = <<16, 32, 60>>

\* The answer text carries the note "Only r/t pages were readable" for the
\* counts of info when info says partial_read, and no note otherwise.
NoteMatches(text, info) ==
    IF info.partial_read
    THEN text.note = <<info.readable_pages, info.total_pages>>
    ELSE text.note = <<>>

\* C23: the answer text returned by query_pdf, and the text stored with the
\* query record, ends with the provenance note readable_pages/total_pages
\* whenever the processing info has partial_read, and has no note when it
\* has not.
C23_NoteIffPartialRead ==
    /\ (pc = "done" /\ response.status = 200)
          => NoteMatches(response.body, extracted.info)
    /\ \A q \in queries : NoteMatches(q.response, q.processing_info)

\* A PDF with one readable page of two has been answered and recorded with
\* the note 1/2.
C23_Witness ==
    /\ pc = "done" /\ response.status = 200
    /\ extracted.info.partial_read
    /\ response.body.note = <<1, 2>>
    /\ \E q \in queries : q.response = response.body

\* Every stored blob is the blob of some metadata record.
NoBlobWithoutRecord ==
    \A b \in blobs : \E r \in pdfs : r.cloudinary_public_id = b

\* upload_pdf has stored the blob and then failed to save its metadata.
SaveFailedAfterStore ==
    /\ pc = "uploaded" /\ upload_result # NoUploadResult
    /\ \A r \in pdfs : r.cloudinary_public_id # upload_result.public_id

\* C24: when the metadata insert fails after the blob was stored, upload_pdf
\* has asked the blob store to delete that blob before it answers, the answer
\* is the metadata error whatever the cleanup reported, and when the cleanup
\* reported the deletion no blob is left without a metadata record.
C24_FailedSaveCleansUp ==
    SaveFailedAfterStore =>
       /\ upload_log.cleanup # "none"
       /\ upload_response.status = 500
       /\ Contains(upload_response.detail, <<"Error", "saving", "file", "metadata">>)
       /\ upload_log.cleanup = "ok"
            => upload_result.public_id \notin blobs /\ NoBlobWithoutRecord

\* The save failed while an earlier PDF is stored; the cleanup deleted the
\* new blob and left the earlier one.
C24_Witness ==
    /\ SaveFailedAfterStore /\ upload_log.cleanup = "ok"
    /\ blobs = {StoredPdf.cloudinary_public_id} /\ pdfs = {StoredPdf}

\* C25: when the file passed the upload validation, the blob store accepted
\* it and the metadata store accepts inserts, upload_pdf has stored one
\* metadata record for the blob, kept the blob and answered 200 with the new
\* pdf_id.
C25_AcceptedUploadSucceeds ==
    (pc = "uploaded" /\ upload_result # NoUploadResult /\ upload_log.insert_accepted)
    => /\ upload_response.status = 200
       /\ upload_result.public_id \in blobs
       /\ \E r \in pdfs : /\ r.cloudinary_public_id = upload_result.public_id
                           /\ upload_response.body.id = r.id

\* C29: an upload that the validation rejected (400 or 413) made no call of
\* the blob store and none of the metadata store; both stores are as they
\* were before the request.
C29_RejectedUploadLeavesStores ==
    (pc = "uploaded" /\ upload_response.status \in {400, 413})
    => /\ upload_log = NoUploadLog
       /\ upload_result = NoUploadResult
       /\ \/ blobs = {} /\ pdfs = {}
          \/ blobs = {StoredPdf.cloudinary_public_id} /\ pdfs = {StoredPdf}

\* A .txt upload was rejected while an earlier PDF is stored.
C29_Witness ==
    /\ pc = "uploaded" /\ upload_response.status = 400 /\ filename = NoteTxt
    /\ blobs = {StoredPdf.cloudinary_public_id} /\ pdfs = {StoredPdf}

\* C26: the download is attempted at most 3 times; when all 3 attempts were
\* answered with a status other than 200, query_pdf answers 404 "Failed to
\* download PDF from storage", not the 408 of a timed-out last attempt nor
\* the 500 of other download errors.
C26_ThreeNon200Is404 ==
    /\ Len(dl_replies) <= 3
    /\ (pc = "done" /\ dl_replies = <<"other_status", "other_status", "other_status">>)
          => /\ response.status = 404
             /\ response.detail = "Failed to download PDF from storage. The file may have been deleted or moved."

\* C30: when the embedding provider fails on every call, one call of
\* find_relevant_chunks for a non-empty chunk list invokes the provider for
\* the query text at most (2 + 1) * (2 + 1) = 9 times, in at most 3 attempts
\* of at most 3 calls each, and has then ended with RetryExhaustedError.
C30_FailingProviderIsBounded ==
    (pc = "rank" /\ provider_log.all_failed /\ chunks # <<>>)
    => /\ provider_log.query_calls <= (2 + 1) * (2 + 1)
       /\ frc.attempt <= 2 /\ ge.attempt <= 2
       /\ frc.state # "returned"
       /\ phase = "end"
            => /\ frc.state = "raised" /\ frc.exc = "RetryExhaustedError"
               /\ provider_log.query_calls = (2 + 1) * (2 + 1)

\* Nine failed calls for the query text, then RetryExhaustedError.
C30_Witness ==
    /\ pc = "rank" /\ phase = "end" /\ chunks # <<>>
    /\ provider_log.all_failed /\ provider_log.query_calls = 9
    /\ frc.state = "raised" /\ frc.exc = "RetryExhaustedError"

\* delete_pdf has removed a metadata record: the query record of the stored
\* PDF or the PDF record.
RecordRemoved == StoredQuery \notin queries \/ StoredPdf \notin pdfs

\* C27: delete_pdf removes metadata records (the query records, the PDF
\* record) only after the blob store reported the blob deleted or already
\* absent; after any other result no record is removed and the answer is
\* 500.
C27_RecordsRemovedOnlyAfterBlob ==
    /\ RecordRemoved => destroy_result \in {"ok", "not found"}
    /\ dpc \in {"queries", "record"} => destroy_result \in {"ok", "not found"}
    /\ (dpc = "done" /\ destroy_result \in {"error", "raise"})
          => ~RecordRemoved /\ del_response.status = 500

\* The blob store answered with another result: 500, both records kept.
C27_Witness ==
    /\ dpc = "done" /\ destroy_result = "error" /\ del_response.status = 500
    /\ StoredQuery \in queries /\ StoredPdf \in pdfs

\* C28: after delete_pdf answered success for an id, no query record that
\* references the id exists, however a concurrent query_pdf for the same id
\* is interleaved with it.
C28_NoQueryRecordAfterDelete ==
    (dpc = "done" /\ del_response.status = 200)
    => \A q \in queries : q.pdf_id # StoredPdfId

====
